---- MODULE Spec2Model ----
(***************************************************************************)
(* A model of hypothesis.internal.conjecture.shrinking.dfas: the           *)
(* normalization driver `normalize` (dfas.py), and the automaton           *)
(* algorithms of hypothesis.internal.conjecture.dfa that its tests         *)
(* (test_dfa.py) exercise.                                                 *)
(***************************************************************************)
EXTENDS Integers, Sequences, FiniteSets, TLC

\* ------------------------------------------------------------------ bounds

\* Byte values the engine's buffers are built from (the real alphabet is 0..255).
MaxByte == 1
\* Longest buffer a shrink returns.
MaxBufLen == 2
\* Largest required_successes a session is started with.
MaxRequired == 2
\* Largest max_dfas a session is started with.
MaxDfasParam == 1
\* Number of distinct automata the learner can come back with.
NumDfas == 2
\* The first interesting attempt arrives after at most EarlyFailures
\* non-interesting ones, or right at the edge of the retry budget.
EarlyFailures == 0
\* Non-interesting attempts explored once an interesting one has been found.
LateFailures == 1

\* Most states of an automaton drawn for the automaton operations.
MaxStates == 2
\* Longest string all_matching_strings is followed to.
MaxEnumLen == 3

\* Longest buffer of a divergence that core extraction is applied to.
MaxCoreLen == 4
\* Most pieces of text in the learned_dfas file before it is first regenerated.
MaxSourceLen == 5
\* Most calls of update_learned_dfas on one file.
MaxUpdates == 3
\* Largest generation the learner is followed to.
MaxGeneration == 2

\* ------------------------------------------------------- program constants

\* dfas.py:122, the retry budget of the "no interesting test cases" assertion.
MaxFailuresToFindInteresting == 1000

\* dfas.py:241, the strings of the hypothesis learned in one pass.
SampleSize == 10

\* dfas.py:231, prev before the first pass.
NoGeneration == -1

\* ------------------------------------------------------------------- state

VARIABLES
    required_successes,            \* keyword argument of normalize
    allowed_to_update,             \* keyword argument of normalize
    max_dfas,                      \* keyword argument of normalize
    pc,                            \* "seeking" | "shrinking" | "done" | "failed"
    error,                         \* what a failed session raised
    seen,                          \* the dict origin -> recorded minimal result
    dfas_added,
    found_interesting,
    consecutive_successes,
    failures_to_find_interesting,
    target,                        \* attempt.interesting_origin
    shrunk,                        \* result of the latest runner.shrink
    SHRINKING_DFAS,                \* the registry: name -> automaton
    update_calls,                  \* calls of update_learned_dfas so far
    learned_dfa_file,              \* the entries learned_dfas holds on disk
    dfa,                           \* the automaton under test
    dfa2,                          \* a second automaton
    last_op,                       \* the operation last applied to dfa
    returned,                      \* what it returned
    valid_cores,                   \* what the calls of is_valid_core at lines 226-227 returned
    new_dfa,                       \* the automaton the learner came back with
    buffers,                       \* (shrunk.buffer, existing.buffer) of a divergence
    core,                          \* what core extraction made of them
    source,                        \* the text of the learned_dfas file
    writes,                        \* times the file was written
    generation,                    \* learner.generation
    prev,                          \* the generation at the start of the pass
    learner_pc,                    \* where the loop of lines 232-242 stands
    available,                     \* strings the enumeration of line 241 can give
    sampled                        \* strings of it learned in this pass

nvars == << required_successes, allowed_to_update, max_dfas, pc, error, seen,
            dfas_added, found_interesting, consecutive_successes,
            failures_to_find_interesting, target, shrunk, SHRINKING_DFAS,
            update_calls, learned_dfa_file, valid_cores, new_dfa >>

\* The automata the operations of the automaton model are applied to.
automata == << dfa, dfa2, last_op, returned >>

\* The divergence core extraction is applied to.
extraction == << buffers, core >>

\* The learned_dfas file.
file == << source, writes >>

\* The learning loop.
learning == << generation, prev, learner_pc, available, sampled >>

\* What a session of normalize leaves alone.
apart == << automata, extraction, file, learning >>

vars == << nvars, automata, extraction, file, learning >>

None == "None"

Bytes == 0..MaxByte

Origins == {"X", "Y"}

RECURSIVE SeqsOfLen(_)
SeqsOfLen(n) ==
    IF n = 0 THEN {<< >>}
    ELSE {Append(s, b) : s \in SeqsOfLen(n - 1), b \in Bytes}

\* The buffers the engine hands back.
Buffers == UNION {SeqsOfLen(n) : n \in 1..MaxBufLen}

\* A ConjectureResult as far as normalize reads it.
Results == [buffer : Buffers, has_discards : BOOLEAN]

DfaIds == 1..NumDfas

\* The registry key of a learned automaton: base_name + "-" + sha1(repr(dfa))[:10].
NameOf(canonical) == << "base_name", canonical >>

\* A dict as a function on its keys: {} and d[k] = x.
EmptyDict == [k \in {} |-> 0]

PutForgetting(d, k, x) == [j \in {k} |-> x]

Put(d, k, x) == [j \in DOMAIN d \cup {k} |-> IF j = k THEN x ELSE d[j]]

\* ------------------------------------------------- sort_key and the cores

StartsWith(s, p) == Len(p) <= Len(s) /\ SubSeq(s, 1, Len(p)) = p

EndsWith(s, p) == Len(p) <= Len(s) /\ SubSeq(s, Len(s) - Len(p) + 1, Len(s)) = p

RECURSIVE LexLess(_, _)
LexLess(a, b) ==
    IF b = << >> THEN FALSE
    ELSE IF a = << >> THEN TRUE
    ELSE IF a[1] # b[1] THEN a[1] < b[1]
    ELSE LexLess(Tail(a), Tail(b))

\* sort_key(a) < sort_key(b), with sort_key(x) = (len(x), x).
SortKeyLess(a, b) == Len(a) < Len(b) \/ (Len(a) = Len(b) /\ LexLess(a, b))

\* Python's s[a:b] for 0 <= a and 0 <= b.
PySlice(s, a, b) == SubSeq(s, a + 1, IF b < Len(s) THEN b ELSE Len(s))

IndexError == -1

\* i = 0; while u[i] == v[i]: i += 1
RECURSIVE PrefixScan(_, _, _)
PrefixScan(u, v, i) ==
    IF i >= Len(u) \/ i >= Len(v) THEN IndexError
    ELSE IF u[i + 1] = v[i + 1] THEN PrefixScan(u, v, i + 1)
    ELSE i

\* i = 1; while u[-i] == v[-i]: i += 1
RECURSIVE SuffixScan(_, _, _)
SuffixScan(u, v, i) ==
    IF i > Len(u) \/ i > Len(v) THEN IndexError
    ELSE IF u[Len(u) + 1 - i] = v[Len(v) + 1 - i] THEN SuffixScan(u, v, i + 1)
    ELSE i

NoCore == [fault |-> "none", prefix |-> << >>, suffix |-> << >>,
           u_core |-> << >>, v_core |-> << >>]

\* No core has been extracted.
NotExtracted == [NoCore EXCEPT !.fault = "pending"]

\* Lines 168-198 and 224: the fault core extraction ends with ("none" when it
\* completes) and the prefix, suffix and cores it computed.
ExtractCore(u, v) ==
    IF StartsWith(v, u) THEN [NoCore EXCEPT !.fault = "AssertNotExtension"]
    ELSE
    LET i == PrefixScan(u, v, 0) IN
    IF i = IndexError THEN [NoCore EXCEPT !.fault = "IndexError"]
    ELSE
    LET prefix == PySlice(u, 0, i) IN
    IF ~(StartsWith(u, prefix) /\ StartsWith(v, prefix))
    THEN [NoCore EXCEPT !.fault = "AssertPrefix"]
    ELSE
    LET j == SuffixScan(u, v, 1) IN
    IF j = IndexError THEN [NoCore EXCEPT !.fault = "IndexError", !.prefix = prefix]
    ELSE
    LET suffix == PySlice(u, Len(u) + 1 - j, Len(u))
        u_core == PySlice(u, Len(prefix), Len(u) - Len(suffix))
        v_core == PySlice(v, Len(prefix), Len(v) - Len(suffix))
        got    == [fault |-> "none", prefix |-> prefix, suffix |-> suffix,
                   u_core |-> u_core, v_core |-> v_core]
    IN
    IF ~(EndsWith(u, suffix) /\ EndsWith(v, suffix))
    THEN [got EXCEPT !.fault = "AssertSuffix"]
    ELSE IF u # prefix \o u_core \o suffix \/ v # prefix \o v_core \o suffix
    THEN [got EXCEPT !.fault = "AssertSplit"]
    ELSE IF ~SortKeyLess(u_core, v_core)
    THEN [got EXCEPT !.fault = "AssertCoreOrder"]
    ELSE got

\* ---------------------------------------------------------- the engine

\* What runner.cached_test_function(prefix + s + suffix) reports, as far as
\* is_valid_core reads it; exact stands for result.buffer == buf.
OracleResults == [status : {"VALID", "INTERESTING"}, interesting_origin : Origins,
                  exact : BOOLEAN, has_discards : BOOLEAN]

\* Lines 202-222.
is_valid_core(result, allow_discards) ==
    /\ result.status = "INTERESTING"
    /\ result.interesting_origin = target
    /\ result.exact
    /\ (allow_discards \/ ~result.has_discards)

\* ------------------------------------------------------------ normalize

LoopContinuesOffByOne(successes) == successes <= required_successes

\* Line 117, the loop test.
LoopContinues(successes) == successes < required_successes

InterestingAssertionStrict(found, failures) ==
    found \/ failures < MaxFailuresToFindInteresting

\* Lines 121-123, the assertion after a non-interesting attempt.
InterestingAssertion(found, failures) ==
    found \/ failures <= MaxFailuresToFindInteresting

SameLength(a, b) == Len(a.buffer) = Len(b.buffer)

\* Line 147.
SameBuffer(a, b) == a.buffer = b.buffer

DivergenceErrorBudgetFirst ==
    IF dfas_added >= max_dfas THEN "FailedToNormaliseTooManyDfas"
    ELSE IF ~allowed_to_update THEN "FailedToNormaliseNotAllowed"
    ELSE "none"

BudgetSpentOffByOne == dfas_added > max_dfas

\* Line 161.
BudgetSpent == dfas_added >= max_dfas

\* Lines 155-164: what a divergence raises before anything is learned.
DivergenceError ==
    IF ~allowed_to_update THEN "FailedToNormaliseNotAllowed"
    ELSE IF BudgetSpent THEN "FailedToNormaliseTooManyDfas"
    ELSE "none"

ShouldUpdateAlways(added) == added >= 0

\* Line 263.
ShouldUpdate(added) == added > 0

\* Lines 117 and 263-266: the loop test after a break or continue and, when
\* the loop is left, the call of update_learned_dfas.
LoopTest(successes) ==
    IF LoopContinues(successes)
    THEN /\ pc' = "seeking"
         /\ UNCHANGED << update_calls, learned_dfa_file >>
    ELSE /\ pc' = "done"
         /\ IF ShouldUpdate(dfas_added)
            THEN /\ update_calls' = update_calls + 1
                 /\ learned_dfa_file' = SHRINKING_DFAS
            ELSE UNCHANGED << update_calls, learned_dfa_file >>

Fail(e) ==
    /\ pc' = "failed"
    /\ error' = e

params == << required_successes, allowed_to_update, max_dfas >>

store == << update_calls, learned_dfa_file >>

\* The part of the exploration that EarlyFailures and LateFailures bound.
MayFindFirstInteresting ==
    \/ found_interesting
    \/ failures_to_find_interesting <= EarlyFailures
    \/ failures_to_find_interesting = MaxFailuresToFindInteresting

MayFailLate ==
    \/ failures_to_find_interesting < EarlyFailures + LateFailures
    \/ /\ failures_to_find_interesting >= MaxFailuresToFindInteresting
       /\ failures_to_find_interesting < MaxFailuresToFindInteresting + LateFailures

\* Lines 118-124: an attempt that is not interesting.
AttemptNotInteresting ==
    /\ pc = "seeking"
    /\ found_interesting => MayFailLate
    /\ failures_to_find_interesting' = failures_to_find_interesting + 1
    /\ IF InterestingAssertion(found_interesting, failures_to_find_interesting')
       THEN UNCHANGED << pc, error >>
       ELSE Fail("AssertNoInterestingTestCases")
    /\ UNCHANGED << valid_cores, new_dfa >>
    /\ UNCHANGED << params, apart, seen, dfas_added, found_interesting,
                    consecutive_successes, target, shrunk, SHRINKING_DFAS,
                    store >>

\* Lines 118-128: an interesting attempt.
AttemptInteresting ==
    /\ pc = "seeking"
    /\ MayFindFirstInteresting
    /\ found_interesting' = TRUE
    /\ \E origin \in Origins : target' = origin
    /\ pc' = "shrinking"
    /\ UNCHANGED << valid_cores, new_dfa >>
    /\ UNCHANGED << params, apart, error, seen, dfas_added, consecutive_successes,
                    failures_to_find_interesting, shrunk, SHRINKING_DFAS,
                    store >>

ShrinkFirstAsSuccess ==
    /\ pc = "shrinking"
    /\ target \notin DOMAIN seen
    /\ \E r \in Results :
        /\ shrunk' = r
        /\ seen' = Put(seen, target, r)
    /\ consecutive_successes' = consecutive_successes + 1
    /\ LoopTest(consecutive_successes')
    /\ UNCHANGED << valid_cores, new_dfa >>
    /\ UNCHANGED << params, apart, error, dfas_added, found_interesting,
                    failures_to_find_interesting, target, SHRINKING_DFAS >>

\* Lines 135-143: the first minimal result of its origin.
ShrinkFirst ==
    /\ pc = "shrinking"
    /\ target \notin DOMAIN seen
    /\ \E r \in Results :
        /\ shrunk' = r
        /\ seen' = Put(seen, target, r)
    /\ LoopTest(consecutive_successes)
    /\ UNCHANGED << valid_cores, new_dfa >>
    /\ UNCHANGED << params, apart, error, dfas_added, found_interesting,
                    consecutive_successes, failures_to_find_interesting, target,
                    SHRINKING_DFAS >>

\* Lines 135-149: the shrunk buffer is the recorded one.
ShrinkSame ==
    /\ pc = "shrinking"
    /\ target \in DOMAIN seen
    /\ \E r \in Results :
        /\ SameBuffer(r, seen[target])
        /\ shrunk' = r
    /\ consecutive_successes' = consecutive_successes + 1
    /\ LoopTest(consecutive_successes')
    /\ UNCHANGED << valid_cores, new_dfa >>
    /\ UNCHANGED << params, apart, error, seen, dfas_added, found_interesting,
                    failures_to_find_interesting, target, SHRINKING_DFAS >>

DivergesFromAnyRecord(r) ==
    /\ pc = "shrinking"
    /\ target \in DOMAIN seen
    /\ \E origin \in DOMAIN seen : ~SameBuffer(r, seen[origin])

\* A divergence: lines 135-153.
Diverges(r) ==
    /\ pc = "shrinking"
    /\ target \in DOMAIN seen
    /\ ~SameBuffer(r, seen[target])

\* Line 153.
Smaller(r) ==
    IF SortKeyLess(r.buffer, seen[target].buffer) THEN r.buffer
    ELSE seen[target].buffer

Larger(r) ==
    IF SortKeyLess(r.buffer, seen[target].buffer) THEN seen[target].buffer
    ELSE r.buffer

\* Lines 151-164: a divergence that raises FailedToNormalise.
DivergeRaises ==
    \E r \in Results :
        /\ Diverges(r)
        /\ DivergenceError # "none"
        /\ shrunk' = r
        /\ consecutive_successes' = 0
        /\ Fail(DivergenceError)
        /\ UNCHANGED << valid_cores, new_dfa >>
        /\ UNCHANGED << params, apart, seen, dfas_added, found_interesting,
                        failures_to_find_interesting, target, SHRINKING_DFAS,
                        store >>

\* Lines 151-198 and 224: a divergence whose core extraction faults.
DivergeCoreFault ==
    \E r \in Results :
        /\ Diverges(r)
        /\ DivergenceError = "none"
        /\ ExtractCore(Smaller(r), Larger(r)).fault # "none"
        /\ shrunk' = r
        /\ consecutive_successes' = 0
        /\ dfas_added' = dfas_added + 1
        /\ Fail(ExtractCore(Smaller(r), Larger(r)).fault)
        /\ UNCHANGED << valid_cores, new_dfa >>
        /\ UNCHANGED << params, apart, seen, found_interesting,
                        failures_to_find_interesting, target, SHRINKING_DFAS,
                        store >>

\* Line 200.
AllowDiscards(r) == r.has_discards \/ seen[target].has_discards

\* The answers of runner.cached_test_function that is_valid_core accepts.
ValidAnswers(r) == {o \in OracleResults : is_valid_core(o, AllowDiscards(r))}

\* Lines 226-227: the engine can answer so that both assertions pass.
CoresCanPass(r) == ValidAnswers(r) # {}

\* Lines 226-227: the engine can answer so that one of the assertions fails.
CoresCanFail(r) == ValidAnswers(r) # OracleResults

\* Lines 226-227: what the calls of is_valid_core can return, up to the first
\* that returns False.
CoreVerdicts(r) ==
    {verdicts \in {<< FALSE >>, << TRUE, FALSE >>, << TRUE, TRUE >>} :
        \A i \in 1..Len(verdicts) :
            IF verdicts[i] THEN CoresCanPass(r) ELSE CoresCanFail(r)}

AnyVerdict(verdicts) == TRUE

\* Lines 226-227: both assertions pass.
CoresValid(verdicts) == verdicts = << TRUE, TRUE >>

\* Lines 151-227: a divergence one of whose cores the oracle rejects.
DivergeInvalidCore ==
    \E r \in Results :
        /\ Diverges(r)
        /\ DivergenceError = "none"
        /\ ExtractCore(Smaller(r), Larger(r)).fault = "none"
        /\ shrunk' = r
        /\ consecutive_successes' = 0
        /\ dfas_added' = dfas_added + 1
        /\ Fail("AssertValidCore")
        /\ \E verdicts \in CoreVerdicts(r) :
            /\ ~CoresValid(verdicts)
            /\ valid_cores' = verdicts
        /\ UNCHANGED new_dfa
        /\ UNCHANGED << params, apart, seen, found_interesting,
                        failures_to_find_interesting, target, SHRINKING_DFAS,
                        store >>

\* Lines 151-258: the learner comes back with an automaton whose name the
\* registry already holds.
DivergeNameCollision ==
    \E r \in Results :
        /\ Diverges(r)
        /\ DivergenceError = "none"
        /\ ExtractCore(Smaller(r), Larger(r)).fault = "none"
        /\ \E verdicts \in CoreVerdicts(r) :
            /\ CoresValid(verdicts)
            /\ valid_cores' = verdicts
        /\ \E learned \in DfaIds :
            /\ NameOf(learned) \in DOMAIN SHRINKING_DFAS
            /\ new_dfa' = learned
        /\ shrunk' = r
        /\ consecutive_successes' = 0
        /\ dfas_added' = dfas_added + 1
        /\ Fail("AssertNameNotInRegistry")
        /\ UNCHANGED << params, apart, seen, found_interesting,
                        failures_to_find_interesting, target, SHRINKING_DFAS,
                        store >>

SeekAgain == pc' = "seeking"

\* Line 130: the inner loop goes round, to runner.shrink(attempt, ...).
ShrinkAgain == pc' = pc

\* Lines 151-261, then line 130 again: an automaton is learned and registered,
\* the recorded result becomes runner.interesting_examples[target], and the
\* same attempt is shrunk once more.
DivergeLearn ==
    \E r \in Results :
        /\ Diverges(r)
        /\ DivergenceError = "none"
        /\ ExtractCore(Smaller(r), Larger(r)).fault = "none"
        /\ \E verdicts \in CoreVerdicts(r) :
            /\ CoresValid(verdicts)
            /\ valid_cores' = verdicts
        /\ \E learned \in DfaIds :
            /\ NameOf(learned) \notin DOMAIN SHRINKING_DFAS
            /\ new_dfa' = learned
            /\ SHRINKING_DFAS' = Put(SHRINKING_DFAS, NameOf(learned), learned)
        /\ \E latest \in Results : seen' = Put(seen, target, latest)
        /\ shrunk' = r
        /\ consecutive_successes' = 0
        /\ dfas_added' = dfas_added + 1
        /\ ShrinkAgain
        /\ UNCHANGED << params, apart, error, found_interesting,
                        failures_to_find_interesting, target, store >>

\* Lines 104-116, with the arguments of the call and the registry as loaded
\* from learned_dfas.
NormalizeInit ==
    /\ required_successes \in 1..MaxRequired
    /\ allowed_to_update \in BOOLEAN
    /\ max_dfas \in 0..MaxDfasParam
    /\ pc = "seeking"
    /\ error = "none"
    /\ seen = EmptyDict
    /\ dfas_added = 0
    /\ found_interesting = FALSE
    /\ consecutive_successes = 0
    /\ failures_to_find_interesting = 0
    /\ target = None
    /\ shrunk = None
    /\ SHRINKING_DFAS \in {EmptyDict, [n \in {NameOf(1)} |-> 1]}
    /\ update_calls = 0
    /\ learned_dfa_file = SHRINKING_DFAS
    /\ valid_cores = << >>
    /\ new_dfa = 0

NormalizeNext ==
    \/ AttemptNotInteresting
    \/ AttemptInteresting
    \/ ShrinkFirst
    \/ ShrinkSame
    \/ DivergeRaises
    \/ DivergeCoreFault
    \/ DivergeInvalidCore
    \/ DivergeNameCollision
    \/ DivergeLearn

\* ------------------------------------------------------ the automaton model

\* The sentinel state from which nothing matches.
DEAD == -1

\* max_length of a state that accepts strings of unbounded length.
Infinity == 1000000

\* ConcreteDFA(transitions, accepting, start) over n states 0..n-1.
DFAsOfSize(n) ==
    [n : {n}, start : 0..(n - 1), accepting : SUBSET (0..(n - 1)),
     delta : [0..(n - 1) -> [Bytes -> {DEAD} \cup 0..(n - 1)]]]

\* test_dfa.py:23, ConcreteDFA([{0: 1, 1: 2}, {}, {1: 3}, {}], {1, 3}).
ExampleDFA ==
    [n |-> 4, start |-> 0, accepting |-> {1, 3},
     delta |-> [s \in 0..3 |-> [b \in Bytes |->
                  IF s = 0 /\ b = 0 THEN 1
                  ELSE IF s = 0 /\ b = 1 THEN 2
                  ELSE IF s = 2 /\ b = 1 THEN 3
                  ELSE DEAD]]]

\* The automata of n states all of whose transitions are on byte 0.
UnaryDFAsOfSize(n) ==
    {[n |-> n, start |-> s, accepting |-> acc,
      delta |-> [q \in 0..(n - 1) |-> [b \in Bytes |->
                   IF b = 0 THEN next[q] ELSE DEAD]]] :
        s \in 0..(n - 1), acc \in SUBSET (0..(n - 1)),
        next \in [0..(n - 1) -> {DEAD} \cup 0..(n - 1)]}

\* Every automaton of at most MaxStates states, and the fixture of
\* test_enumeration_when_sizes_do_not_agree.
SmallDFAs == UNION {DFAsOfSize(n) : n \in 1..MaxStates} \cup {ExampleDFA}

\* The automata drawn: the small ones, and those of one more state that read
\* byte 0 only.
DFAs == SmallDFAs \cup UnaryDFAsOfSize(MaxStates + 1)

States(d) == 0..(d.n - 1)

\* Every string of at most n bytes.
StringsUpTo(n) == UNION {SeqsOfLen(k) : k \in 0..n}

transition(d, state, b) == IF state = DEAD THEN DEAD ELSE d.delta[state][b]

is_accepting(d, state) == state # DEAD /\ state \in d.accepting

\* The state the automaton is in after reading s from state.
RECURSIVE Run(_, _, _)
Run(d, state, s) ==
    IF s = << >> THEN state
    ELSE Run(d, transition(d, state, Head(s)), Tail(s))

matches(d, s) == is_accepting(d, Run(d, d.start, s))

\* Backward reachability from the accepting set.
RECURSIVE LiveStates(_, _)
LiveStates(d, live) ==
    LET more == live \cup {s \in States(d) : \E b \in Bytes : d.delta[s][b] \in live}
    IN IF more = live THEN live ELSE LiveStates(d, more)

is_dead(d, state) == state \notin LiveStates(d, d.accepting)

SetMax(S) == CHOOSE m \in S : \A k \in S : k <= m

\* Longest path over the states that are not dead; a state met again while it
\* is being resolved gives infinity.
RECURSIVE LongestFromAnyTarget(_, _, _)
LongestFromAnyTarget(d, state, resolving) ==
    IF state \in resolving THEN Infinity
    ELSE
    LET targets == {d.delta[state][b] : b \in Bytes} \ {DEAD}
        lengths == {LongestFromAnyTarget(d, t, resolving \cup {state}) : t \in targets}
    IN IF targets = {} THEN 0
       ELSE IF Infinity \in lengths THEN Infinity
       ELSE 1 + SetMax(lengths)

RECURSIVE LongestFrom(_, _, _)
LongestFrom(d, state, resolving) ==
    IF state \in resolving THEN Infinity
    ELSE
    LET targets == {t \in {d.delta[state][b] : b \in Bytes} : ~is_dead(d, t)}
        lengths == {LongestFrom(d, t, resolving \cup {state}) : t \in targets}
    IN IF targets = {} THEN 0
       ELSE IF Infinity \in lengths THEN Infinity
       ELSE 1 + SetMax(lengths)

max_length(d, state) == IF is_dead(d, state) THEN 0 ELSE LongestFrom(d, state, {})

RECURSIVE count_strings(_, _, _)
RECURSIVE CountFromByte(_, _, _, _)
\* The strings of the given length from state whose first byte is at least b.
CountFromByte(d, state, length, b) ==
    IF b > MaxByte THEN 0
    ELSE count_strings(d, transition(d, state, b), length - 1)
             + CountFromByte(d, state, length, b + 1)

count_strings(d, state, length) ==
    IF state = DEAD THEN 0
    ELSE IF length = 0 THEN (IF is_accepting(d, state) THEN 1 ELSE 0)
    ELSE CountFromByte(d, state, length, 0)

RECURSIVE StringOfRank(_, _, _, _)
RECURSIVE SelectByte(_, _, _, _, _)
RECURSIVE SelectByteKeepingRank(_, _, _, _, _)
SelectByteKeepingRank(d, state, length, rank, b) ==
    LET next == transition(d, state, b)
        completions == count_strings(d, next, length - 1)
    IN IF rank < completions
       THEN << b >> \o StringOfRank(d, next, length - 1, rank)
       ELSE SelectByteKeepingRank(d, state, length, rank - 1, b + 1)

\* Digit selection: walk the bytes in order, skipping the subtrees whose
\* count of completions the rank exceeds.
SelectByte(d, state, length, rank, b) ==
    LET next == transition(d, state, b)
        completions == count_strings(d, next, length - 1)
    IN IF rank < completions
       THEN << b >> \o StringOfRank(d, next, length - 1, rank)
       ELSE SelectByte(d, state, length, rank - completions, b + 1)

\* The accepted string of the given length that has the given rank among
\* them in lexicographic order, 0 <= rank < count_strings(d, state, length).
StringOfRank(d, state, length, rank) ==
    IF length = 0 THEN << >>
    ELSE SelectByte(d, state, length, rank, 0)

all_matching_strings_of_length(d, length) ==
    [i \in 1..count_strings(d, d.start, length) |->
        StringOfRank(d, d.start, length, i - 1)]

\* The last length all_matching_strings goes to: max_length when that is
\* finite, and as far as it is followed otherwise.
LastLength(d) ==
    IF max_length(d, d.start) < MaxEnumLen THEN max_length(d, d.start)
    ELSE MaxEnumLen

RECURSIVE MatchingFromLength(_, _)
MatchingFromLength(d, length) ==
    IF length > LastLength(d) THEN << >>
    ELSE all_matching_strings_of_length(d, length) \o MatchingFromLength(d, length + 1)

all_matching_strings(d) ==
    IF is_dead(d, d.start) THEN << >> ELSE MatchingFromLength(d, 0)

\* Forward reachability.
RECURSIVE Reachable(_, _)
Reachable(d, from) ==
    LET more == from \cup ({d.delta[s][b] : s \in from, b \in Bytes} \ {DEAD})
    IN IF more = from THEN from ELSE Reachable(d, more)

RefineNothing(d, eq) == eq

\* One round of partition refinement: the pairs of eq that no byte tells apart.
Refine(d, eq) ==
    {p \in eq : \A b \in Bytes :
        LET s == d.delta[p[1]][b]
            t == d.delta[p[2]][b]
        IN IF is_dead(d, s) \/ is_dead(d, t) THEN is_dead(d, s) /\ is_dead(d, t)
           ELSE << s, t >> \in eq}

RECURSIVE RefineToFixpoint(_, _)
RefineToFixpoint(d, eq) ==
    IF Refine(d, eq) = eq THEN eq ELSE RefineToFixpoint(d, Refine(d, eq))

\* The Myhill-Nerode equivalence of the states that are reachable and not dead.
Nerode(d) ==
    LET useful == {s \in Reachable(d, {d.start}) : ~is_dead(d, s)}
    IN RefineToFixpoint(d, {p \in useful \X useful :
                               is_accepting(d, p[1]) = is_accepting(d, p[2])})

\* The representative of a state's class: its least member.
ClassOf(eq, state) == CHOOSE m \in {t \in 0..state : << state, t >> \in eq} :
                          \A t \in 0..state : << state, t >> \in eq => m <= t

Contains(seq, e) == \E i \in 1..Len(seq) : seq[i] = e

IndexOf(seq, e) == CHOOSE i \in 1..Len(seq) : seq[i] = e

\* The classes in the order a breadth-first traversal from the start state,
\* bytes ascending, first meets them; order[1..done] have been expanded.
RECURSIVE Discover(_, _, _, _, _)
Discover(d, eq, order, done, b) ==
    IF done >= Len(order) THEN order
    ELSE IF b > MaxByte THEN Discover(d, eq, order, done + 1, 0)
    ELSE LET t == d.delta[order[done + 1]][b]
         IN IF is_dead(d, t) \/ Contains(order, ClassOf(eq, t))
            THEN Discover(d, eq, order, done, b + 1)
            ELSE Discover(d, eq, Append(order, ClassOf(eq, t)), done, b + 1)

\* The automaton with no live state.
EmptyDFA ==
    [n |-> 1, start |-> 0, accepting |-> {},
     delta |-> [s \in {0} |-> [b \in Bytes |-> DEAD]]]

\* The minimal automaton of the language, its states numbered in the order
\* of Discover.
canonicalise(d) ==
    IF is_dead(d, d.start) THEN EmptyDFA
    ELSE
    LET eq == Nerode(d)
        order == Discover(d, eq, << ClassOf(eq, d.start) >>, 0, 0)
    IN [n |-> Len(order),
        start |-> 0,
        accepting |-> {i \in 0..(Len(order) - 1) : is_accepting(d, order[i + 1])},
        delta |-> [i \in 0..(Len(order) - 1) |-> [b \in Bytes |->
                     LET t == d.delta[order[i + 1]][b]
                     IN IF is_dead(d, t) THEN DEAD
                        ELSE IndexOf(order, ClassOf(eq, t)) - 1]]]

\* The pairs of states the two automata can be in after the same string.
RECURSIVE JointReachable(_, _, _)
JointReachable(d, e, from) ==
    LET more == from \cup {<< transition(d, p[1], b), transition(e, p[2], b) >> :
                              p \in from, b \in Bytes}
    IN IF more = from THEN from ELSE JointReachable(d, e, more)

EquivalentAtStart(d, e) == is_accepting(d, d.start) = is_accepting(e, e.start)

\* Emptiness of the symmetric difference.
equivalent(d, e) ==
    \A p \in JointReachable(d, e, {<< d.start, e.start >>}) :
        is_accepting(d, p[1]) = is_accepting(e, p[2])

\* The ordered (byte, target) pairs of a state's transitions that are not dead.
RECURSIVE TransitionList(_, _, _)
TransitionList(d, state, b) ==
    IF b > MaxByte THEN << >>
    ELSE (IF d.delta[state][b] = DEAD THEN << >> ELSE << << b, d.delta[state][b] >> >>)
             \o TransitionList(d, state, b + 1)

RECURSIVE SortedStates(_, _)
SortedStates(S, from) ==
    IF S = {} THEN << >>
    ELSE IF from \in S THEN << from >> \o SortedStates(S \ {from}, from + 1)
    ELSE SortedStates(S, from + 1)

\* The textual encoding: the ordered state list with each state's ordered
\* transition list, the ordered accepting states, and the start state.
Repr(d) ==
    << [i \in 1..d.n |-> TransitionList(d, i - 1, 0)],
       SortedStates(d.accepting, 0),
       d.start >>

\* The automata a test draws.
AutomataInit ==
    /\ dfa \in DFAs
    /\ dfa2 = EmptyDFA
    /\ last_op = "new"
    /\ returned = << >>

\* No automaton is under test while normalize runs.
AutomataIdle ==
    /\ dfa = EmptyDFA
    /\ dfa2 = EmptyDFA
    /\ last_op = "new"
    /\ returned = << >>

AllMatchingStrings ==
    /\ last_op = "new"
    /\ last_op' = "all_matching_strings"
    /\ returned' = all_matching_strings(dfa)
    /\ UNCHANGED << dfa, dfa2, nvars, extraction, file, learning >>

MaxLength ==
    /\ last_op = "new"
    /\ last_op' = "max_length"
    /\ returned' = << max_length(dfa, dfa.start) >>
    /\ UNCHANGED << dfa, dfa2, nvars, extraction, file, learning >>

CountStrings ==
    /\ last_op = "new"
    /\ \E length \in 0..(MaxEnumLen + 1) :
        returned' = << length, count_strings(dfa, dfa.start, length) >>
    /\ last_op' = "count_strings"
    /\ UNCHANGED << dfa, dfa2, nvars, extraction, file, learning >>

Canonicalise ==
    /\ last_op = "new"
    /\ last_op' = "canonicalise"
    /\ dfa2' = canonicalise(dfa)
    /\ returned' = Repr(canonicalise(dfa))
    /\ UNCHANGED << dfa, nvars, extraction, file, learning >>

Equivalent ==
    /\ last_op = "new"
    /\ \E other \in SmallDFAs :
        /\ dfa2' = other
        /\ returned' = << equivalent(dfa, other) >>
    /\ last_op' = "equivalent"
    /\ UNCHANGED << dfa, nvars, extraction, file, learning >>

AutomataNext ==
    \/ AllMatchingStrings
    \/ MaxLength
    \/ CountStrings
    \/ Canonicalise

\* No divergence is under extraction.
ExtractionIdle ==
    /\ buffers = << << >>, << >> >>
    /\ core = NotExtracted

\* The learned_dfas file is not looked at.
FileIdle ==
    /\ source = << >>
    /\ writes = 0

\* No learner has been made.
LearningIdle ==
    /\ generation = 0
    /\ prev = 0
    /\ learner_pc = "idle"
    /\ available = 0
    /\ sampled = 0

\* A session of normalize.
Init == NormalizeInit /\ AutomataIdle /\ ExtractionIdle /\ FileIdle /\ LearningIdle

Next == NormalizeNext

Spec == Init /\ [][Next]_vars

\* No session of normalize runs.
NormalizeIdle ==
    /\ required_successes = 1
    /\ allowed_to_update = FALSE
    /\ max_dfas = 0
    /\ pc = "idle"
    /\ error = "none"
    /\ seen = EmptyDict
    /\ dfas_added = 0
    /\ found_interesting = FALSE
    /\ consecutive_successes = 0
    /\ failures_to_find_interesting = 0
    /\ target = None
    /\ shrunk = None
    /\ SHRINKING_DFAS = EmptyDict
    /\ update_calls = 0
    /\ learned_dfa_file = EmptyDict
    /\ valid_cores = << >>
    /\ new_dfa = 0

\* The operations of the automaton model applied to the automata drawn.
InitDFA ==
    /\ AutomataInit
    /\ NormalizeIdle
    /\ ExtractionIdle
    /\ FileIdle
    /\ LearningIdle

NextDFA == AutomataNext

SpecDFA == InitDFA /\ [][NextDFA]_vars

\* equivalent applied to the pairs of small automata.
InitPair ==
    /\ AutomataInit
    /\ dfa \in SmallDFAs
    /\ NormalizeIdle
    /\ ExtractionIdle
    /\ FileIdle
    /\ LearningIdle

NextPair == Equivalent

SpecPair == InitPair /\ [][NextPair]_vars

\* ------------------------------------------------ update_learned_dfas alone

\* Line 50.
Marker == "# AUTOGENERATED BEGINS"

\* The line boundaries str.splitlines splits at.
LineBoundaries == {"\n", "\r\n"}

\* The pieces of text the file is made of before it is first regenerated.
Pieces == {Marker, "pass"} \cup LineBoundaries

Sources == UNION {[1..n -> Pieces] : n \in 0..MaxSourceLen}

\* Line 48, source.splitlines(): the text still to read, the line being read
\* and the lines read so far; a last line without a boundary counts when it
\* is not empty.
RECURSIVE SplitFrom(_, _, _)
SplitFrom(text, line, lines) ==
    IF text = << >> THEN (IF line = << >> THEN lines ELSE Append(lines, line))
    ELSE IF Head(text) \in LineBoundaries
    THEN SplitFrom(Tail(text), << >>, Append(lines, line))
    ELSE SplitFrom(Tail(text), Append(line, Head(text)), lines)

splitlines(text) == SplitFrom(text, << >>, << >>)

\* Line 50, lines.index(line), counted from 1: the first line that is equal.
index(lines, line) ==
    CHOOSE i \in 1..Len(lines) :
        lines[i] = line /\ \A j \in 1..(i - 1) : lines[j] # line

\* Line 64, "\n".join(lines).
RECURSIVE join(_)
join(lines) ==
    IF lines = << >> THEN << >>
    ELSE IF Len(lines) = 1 THEN lines[1]
    ELSE lines[1] \o << "\n" >> \o join(Tail(lines))

\* Line 58, the keys of sorted(SHRINKING_DFAS.items()).
RECURSIVE SortedKeys(_)
SortedKeys(keys) ==
    IF keys = {} THEN << >>
    ELSE LET least == CHOOSE k \in keys : \A j \in keys : k[2] <= j[2]
         IN << least >> \o SortedKeys(keys \ {least})

\* Line 59, "SHRINKING_DFAS[%r] = %r # noqa: E501" % (k, v).
EntryLine(k, v) ==
    << "SHRINKING_DFAS[", ToString(k), "] = ", ToString(v), " # noqa: E501" >>

\* Lines 48-64: new_source, from the text read and the registry.
new_source(text, registry) ==
    LET lines == splitlines(text)
        kept == SubSeq(lines, 1, index(lines, << Marker >>))
        keys == SortedKeys(DOMAIN registry)
        entries == [n \in 1..Len(keys) |-> EntryLine(keys[n], registry[keys[n]])]
    IN join(kept \o << << >>, << "# fmt: off" >>, << >> >>
                 \o entries
                 \o << << >>, << "# fmt: on" >> >>)
           \o << "\n" >>

AlwaysWrite(new, old) == TRUE

\* Line 66.
ShouldWrite(new, old) == new # old

\* The locals of normalize that the learning loop does not write.
caller == << required_successes, allowed_to_update, max_dfas, pc, error, seen,
             dfas_added, found_interesting, consecutive_successes,
             failures_to_find_interesting, target, shrunk, valid_cores >>

\* What update_learned_dfas and the registration of line 259 leave alone.
session == << caller, new_dfa >>

\* Lines 41-68, on a file that has the marker line.
update_learned_dfas ==
    /\ update_calls < MaxUpdates
    /\ Contains(splitlines(source), << Marker >>)
    /\ update_calls' = update_calls + 1
    /\ learned_dfa_file' = SHRINKING_DFAS
    /\ IF ShouldWrite(new_source(source, SHRINKING_DFAS), source)
       THEN /\ source' = new_source(source, SHRINKING_DFAS)
            /\ writes' = writes + 1
       ELSE UNCHANGED << source, writes >>
    /\ UNCHANGED << session, SHRINKING_DFAS, automata, extraction, learning >>

\* Line 259, in a session that runs between two calls of update_learned_dfas.
Register ==
    /\ \E learned \in DfaIds :
        /\ NameOf(learned) \notin DOMAIN SHRINKING_DFAS
        /\ SHRINKING_DFAS' = Put(SHRINKING_DFAS, NameOf(learned), learned)
    /\ UNCHANGED << session, store, automata, extraction, file, learning >>

\* The learned_dfas file as checked in or edited by hand: any text with a
\* marker line.
InitStore ==
    /\ source \in {text \in Sources : Contains(splitlines(text), << Marker >>)}
    /\ writes = 0
    /\ NormalizeIdle
    /\ AutomataIdle
    /\ ExtractionIdle
    /\ LearningIdle

NextStore ==
    \/ update_learned_dfas
    \/ Register

SpecStore == InitStore /\ [][NextStore]_vars

\* ------------------------------------------------- the learning loop alone

\* learner.learn(string): zero or more refinement rounds, each of which adds
\* one to the generation.
learn(g) == g..MaxGeneration

\* learner.dfa when the learner is at generation g.
HypothesisAt(g) == g + 1

FirstPassOnly(g, p) == p = NoGeneration

\* Line 232.
GenerationChanged(g, p) == g # p

Min(a, b) == IF a < b THEN a ELSE b

\* Lines 232-233 and, when the loop is left, line 247.
WhileGenerationChanged ==
    /\ learner_pc = "while"
    /\ IF GenerationChanged(generation, prev)
       THEN /\ prev' = generation
            /\ learner_pc' = "learn_u_core"
            /\ UNCHANGED new_dfa
       ELSE /\ new_dfa' = HypothesisAt(generation)
            /\ learner_pc' = "done"
            /\ UNCHANGED prev
    /\ UNCHANGED << generation, available, sampled >>
    /\ UNCHANGED << caller, SHRINKING_DFAS, store, automata, extraction, file >>

\* Line 234.
LearnUCore ==
    /\ learner_pc = "learn_u_core"
    /\ generation' \in learn(generation)
    /\ learner_pc' = "learn_v_core"
    /\ UNCHANGED << prev, available, sampled >>
    /\ UNCHANGED << nvars, automata, extraction, file >>

\* Lines 235 and 241: learn(v_core), then the enumeration of the hypothesis,
\* which matches both cores, is opened and cut at SampleSize strings.
LearnVCore ==
    /\ learner_pc = "learn_v_core"
    /\ generation' \in learn(generation)
    /\ available' \in 2..(SampleSize + 1)
    /\ sampled' = 0
    /\ learner_pc' = "for"
    /\ UNCHANGED prev
    /\ UNCHANGED << nvars, automata, extraction, file >>

\* Lines 241-242: learn the next string of the enumeration.
LearnSample ==
    /\ learner_pc = "for"
    /\ generation' \in learn(generation)
    /\ sampled' = sampled + 1
    /\ learner_pc' = IF sampled' = Min(available, SampleSize) THEN "while" ELSE "for"
    /\ UNCHANGED << prev, available >>
    /\ UNCHANGED << nvars, automata, extraction, file >>

\* Lines 229-231: learner = LStar(is_valid_core); prev = -1.
InitLearn ==
    /\ generation = 0
    /\ prev = NoGeneration
    /\ learner_pc = "while"
    /\ available = 0
    /\ sampled = 0
    /\ NormalizeIdle
    /\ AutomataIdle
    /\ ExtractionIdle
    /\ FileIdle

NextLearn ==
    \/ WhileGenerationChanged
    \/ LearnUCore
    \/ LearnVCore
    \/ LearnSample

SpecLearn == InitLearn /\ [][NextLearn]_vars

\* ------------------------------------------------- core extraction alone

\* The buffers of the two minimal results of a divergence.
CoreBuffers == StringsUpTo(MaxCoreLen)

UnsortedPair(a, b) == << a, b >>

\* Line 153: sorted((a, b), key=sort_key), which is stable.
sorted(a, b) == IF SortKeyLess(b, a) THEN << b, a >> ELSE << a, b >>

\* Line 153: u and v.
SmallerBuffer == sorted(buffers[1], buffers[2])[1]

LargerBuffer == sorted(buffers[1], buffers[2])[2]

\* Lines 153-224 applied to the buffers of a divergence.
ExtractCores ==
    /\ core = NotExtracted
    /\ core' = ExtractCore(SmallerBuffer, LargerBuffer)
    /\ UNCHANGED << buffers, nvars, automata, file, learning >>

\* Line 147 found shrunk.buffer and existing.buffer different.
InitCore ==
    /\ buffers \in {pair \in CoreBuffers \X CoreBuffers : pair[1] # pair[2]}
    /\ core = NotExtracted
    /\ NormalizeIdle
    /\ AutomataIdle
    /\ FileIdle
    /\ LearningIdle

NextCore == ExtractCores

SpecCore == InitCore /\ [][NextCore]_vars

\* ------------------------------------------------------------------ claims

\* A step of the inner loop that compares the shrunk result with the one
\* recorded for its origin (lines 145-147).
Compares == pc = "shrinking" /\ target \in DOMAIN seen

\* The faults lines 168-258 raise once learning has started.
LearningFaults == {"AssertNotExtension", "IndexError", "AssertPrefix",
                   "AssertSuffix", "AssertSplit", "AssertCoreOrder",
                   "AssertValidCore", "AssertNameNotInRegistry"}

\* C1: normalize returns only with consecutive_successes = required_successes;
\* a comparison that finds the shrunk buffer equal to the recorded one adds
\* exactly one to the counter, a comparison that finds them different sets it
\* to zero, and no other step changes it.
C1_ReturnsAfterRequiredMatches ==
    /\ [](pc = "done" => consecutive_successes = required_successes)
    /\ [][Compares =>
            IF shrunk'.buffer = seen[target].buffer
            THEN consecutive_successes' = consecutive_successes + 1
            ELSE consecutive_successes' = 0]_vars
    /\ [][~Compares => consecutive_successes' = consecutive_successes]_vars

\* C1 witness: a session that returned after a divergence had reset the
\* counter and two matches in a row followed.
C1_Witness ==
    /\ pc = "done"
    /\ required_successes = 2
    /\ consecutive_successes = 2
    /\ dfas_added >= 1

\* C2: with allowed_to_update False a divergence raises the "not allowed"
\* FailedToNormalise at once, whatever max_dfas is: dfas_added, the registry,
\* the recorded results and the store are left as they were, and such a
\* session never learns or persists anything.
C2_DisallowedDivergenceFailsAtOnce ==
    /\ [][(~allowed_to_update /\ Compares /\ shrunk'.buffer # seen[target].buffer)
            => /\ pc' = "failed"
               /\ error' = "FailedToNormaliseNotAllowed"
               /\ UNCHANGED << dfas_added, SHRINKING_DFAS, seen, store >>]_vars
    /\ [](~allowed_to_update =>
            /\ dfas_added = 0
            /\ update_calls = 0
            /\ SHRINKING_DFAS = learned_dfa_file)

\* C2 witness: the "not allowed" failure in a session whose learning budget
\* was spent as well (max_dfas = 0).
C2_Witness ==
    /\ pc = "failed"
    /\ error = "FailedToNormaliseNotAllowed"
    /\ ~allowed_to_update
    /\ max_dfas = 0
    /\ shrunk.buffer # seen[target].buffer

\* C3: dfas_added and the number of automata the session has added to the
\* registry never exceed max_dfas; a divergence met with allowed_to_update
\* True and dfas_added = max_dfas raises the "too hard to learn"
\* FailedToNormalise and learns nothing.
C3_LearnsAtMostMaxDfas ==
    /\ [](dfas_added <= max_dfas)
    /\ [](pc # "done" =>
            Cardinality(DOMAIN SHRINKING_DFAS \ DOMAIN learned_dfa_file) <= max_dfas)
    /\ [][Cardinality(DOMAIN SHRINKING_DFAS') <= Cardinality(DOMAIN SHRINKING_DFAS) + 1]_vars
    /\ [][(allowed_to_update /\ dfas_added >= max_dfas /\ Compares
              /\ shrunk'.buffer # seen[target].buffer)
            => /\ pc' = "failed"
               /\ error' = "FailedToNormaliseTooManyDfas"
               /\ UNCHANGED << dfas_added, SHRINKING_DFAS >>]_vars

\* C3 witness: the budget error after max_dfas = 1 automaton was learned.
C3_Witness ==
    /\ pc = "failed"
    /\ error = "FailedToNormaliseTooManyDfas"
    /\ allowed_to_update
    /\ max_dfas = 1
    /\ dfas_added = 1
    /\ Cardinality(DOMAIN SHRINKING_DFAS \ DOMAIN learned_dfa_file) = 1

\* The session has ended after an interesting case was found.
Finished == pc \in {"done", "failed"} /\ found_interesting

\* The session returned after its last shrink gave the recorded buffer, with
\* the required matches in a row and at most max_dfas automata learned.
Converged ==
    /\ pc = "done"
    /\ consecutive_successes = required_successes
    /\ dfas_added <= max_dfas
    /\ shrunk.buffer = seen[target].buffer

\* C4 as stated: with allowed_to_update True and max_dfas >= 1 a finished
\* session either converged or raised the learning-budget error.
C4_ConvergesOrBudgetExceeded ==
    (allowed_to_update /\ max_dfas >= 1 /\ Finished) =>
        \/ Converged
        \/ pc = "failed" /\ error = "FailedToNormaliseTooManyDfas"

\* C4 as amended: with allowed_to_update True and max_dfas >= 1 a finished
\* session either converged, or raised the learning-budget error, or raised
\* one of the faults of the learning step (lines 168-258); it never raised the
\* "not allowed" error and never returned without having converged.
C4_ConvergesOrBudgetOrLearningFault ==
    (allowed_to_update /\ max_dfas >= 1 /\ Finished) =>
        \/ Converged
        \/ pc = "failed" /\ error = "FailedToNormaliseTooManyDfas"
        \/ pc = "failed" /\ error \in LearningFaults

\* C4 witness: a session that converged after learning an automaton.
C4_Witness ==
    /\ allowed_to_update
    /\ max_dfas >= 1
    /\ Converged
    /\ dfas_added >= 1

\* C5: update_learned_dfas is called at most once, in the step that returns,
\* and only when the registry holds an automaton the store does not; a
\* session that returned without calling it learned nothing, and a failed
\* session never called it.
C5_PersistsOnceAtTheEnd ==
    /\ [](update_calls <= 1)
    /\ [](update_calls = 1 <=> (pc = "done" /\ dfas_added > 0))
    /\ [](pc = "done" => SHRINKING_DFAS = learned_dfa_file)
    /\ [](pc # "done" => update_calls = 0)
    /\ [][update_calls' # update_calls =>
            /\ pc # "done" /\ pc' = "done"
            /\ DOMAIN SHRINKING_DFAS # DOMAIN learned_dfa_file
            /\ learned_dfa_file' = SHRINKING_DFAS]_vars
    /\ [][update_calls' = update_calls => learned_dfa_file' = learned_dfa_file]_vars

\* C5 witness: a session that returned having learned an automaton and
\* called update_learned_dfas.
C5_Witness ==
    /\ pc = "done"
    /\ dfas_added >= 1
    /\ update_calls = 1

\* C6 as stated: while no interesting case has been found, the 1000th
\* non-interesting attempt raises the fault.
C6_FaultOnThousandthAttempt ==
    (~found_interesting /\ failures_to_find_interesting >= MaxFailuresToFindInteresting)
        => (pc = "failed" /\ error = "AssertNoInterestingTestCases")

\* C6 as amended: while no interesting case has been found, 1000
\* non-interesting attempts are tolerated and the 1001st raises the fault;
\* once an interesting case has been found the fault is never raised.
C6_FaultOnAttemptAfterBudget ==
    /\ (error = "AssertNoInterestingTestCases") <=>
           (~found_interesting
              /\ failures_to_find_interesting = MaxFailuresToFindInteresting + 1)
    /\ error = "AssertNoInterestingTestCases" => pc = "failed"
    /\ (~found_interesting /\ failures_to_find_interesting <= MaxFailuresToFindInteresting)
           => pc = "seeking"

\* C6 witness: the fault, raised with no interesting case ever found.
C6_Witness ==
    /\ pc = "failed"
    /\ error = "AssertNoInterestingTestCases"
    /\ ~found_interesting

\* More non-interesting attempts than the budget, and no fault, since an
\* interesting case had been found.
C6_LateFailuresTolerated ==
    /\ found_interesting
    /\ failures_to_find_interesting > MaxFailuresToFindInteresting
    /\ error = "none"

\* The automaton whose only state accepts and has no transitions
\* (test_max_length_of_empty_dfa_is_zero).
OnlyEmptyString(d) ==
    /\ d.n = 1
    /\ d.accepting = {0}
    /\ \A b \in Bytes : d.delta[0][b] = DEAD

\* C7: all_matching_strings yields accepted strings only, every accepted
\* string (of the lengths it is followed to), in strictly ascending shortlex
\* order, hence each once; when max_length is finite nothing accepted is left
\* after the sequence ends; a dead start state gives the empty sequence; and
\* the automaton 0--0-->1, 0--1-->2, 2--1-->3 accepting {1,3} gives
\* [0x00, 0x0101].
C7_EnumeratesAcceptedInShortlex ==
    last_op = "all_matching_strings" =>
        /\ \A i \in 1..Len(returned) : matches(dfa, returned[i])
        /\ \A s \in StringsUpTo(MaxEnumLen) :
               matches(dfa, s) => Contains(returned, s)
        /\ \A i \in 1..(Len(returned) - 1) : SortKeyLess(returned[i], returned[i + 1])
        /\ max_length(dfa, dfa.start) # Infinity =>
               \A s \in StringsUpTo(MaxEnumLen + 1) :
                   matches(dfa, s) => Contains(returned, s)
        /\ is_dead(dfa, dfa.start) => returned = << >>
        /\ dfa = ExampleDFA => returned = << << 0 >>, << 1, 1 >> >>

\* C7 witness: the enumeration of the example automaton.
C7_Witness ==
    /\ last_op = "all_matching_strings"
    /\ dfa = ExampleDFA
    /\ returned = << << 0 >>, << 1, 1 >> >>

\* C8 as stated: for every automaton whose max_length from the start state is
\* finite, count_strings(start, max_length) > 0 and
\* count_strings(start, max_length + 1) = 0.
C8_StringOfMaxLength ==
    (last_op = "max_length" /\ returned[1] # Infinity) =>
        /\ count_strings(dfa, dfa.start, returned[1]) > 0
        /\ count_strings(dfa, dfa.start, returned[1] + 1) = 0

\* C8 as amended: for every automaton whose start state is not dead and whose
\* max_length from the start state is finite,
\* count_strings(start, max_length) > 0 and
\* count_strings(start, max_length + 1) = 0; max_length is 0 for the automaton
\* whose only state accepts and has no transitions.
C8_LiveStartHasStringOfMaxLength ==
    last_op = "max_length" =>
        /\ (returned[1] # Infinity /\ ~is_dead(dfa, dfa.start)) =>
               /\ count_strings(dfa, dfa.start, returned[1]) > 0
               /\ count_strings(dfa, dfa.start, returned[1] + 1) = 0
        /\ (returned[1] # Infinity) =>
               count_strings(dfa, dfa.start, returned[1] + 1) = 0
        /\ OnlyEmptyString(dfa) => returned = << 0 >>

\* C8 witness: a live start state whose longest accepted string has two bytes.
C8_Witness ==
    /\ last_op = "max_length"
    /\ ~is_dead(dfa, dfa.start)
    /\ returned = << 2 >>
    /\ count_strings(dfa, dfa.start, 2) > 0

\* C9: the canonical automaton is equivalent to the original and matches the
\* same strings, agrees with it on max_length from the start state, on the
\* first enumerated string and on count_strings at that string's length, and
\* canonicalising it again gives the same encoding.
C9_CanonicalisePreservesLanguage ==
    last_op = "canonicalise" =>
        /\ equivalent(dfa, dfa2)
        /\ \A s \in StringsUpTo(MaxEnumLen) : matches(dfa, s) = matches(dfa2, s)
        /\ max_length(dfa, dfa.start) = max_length(dfa2, dfa2.start)
        /\ (all_matching_strings(dfa) = << >>) = (all_matching_strings(dfa2) = << >>)
        /\ all_matching_strings(dfa) # << >> =>
               LET minimal == Head(all_matching_strings(dfa))
               IN /\ minimal = Head(all_matching_strings(dfa2))
                  /\ count_strings(dfa, dfa.start, Len(minimal))
                         = count_strings(dfa2, dfa2.start, Len(minimal))
        /\ returned = Repr(dfa2)
        /\ Repr(canonicalise(dfa2)) = returned

\* C9 witness: an automaton of two states that canonicalise merges into one,
\* with a non-empty language.
C9_Witness ==
    /\ last_op = "canonicalise"
    /\ dfa.n = 2
    /\ Reachable(dfa, {dfa.start}) = {0, 1}
    /\ dfa2.n = 1
    /\ dfa2.accepting = {0}

\* C10: when the start state of A is not dead and B does not match the first
\* string A enumerates, A.equivalent(B) is false.
C10_DifferentStringNotEquivalent ==
    (/\ last_op = "equivalent"
     /\ ~is_dead(dfa, dfa.start)
     /\ ~matches(dfa2, Head(all_matching_strings(dfa))))
        => returned = << FALSE >>

\* C10 witness: B has a live start state and rejects A's first string.
C10_Witness ==
    /\ last_op = "equivalent"
    /\ ~is_dead(dfa, dfa.start)
    /\ ~is_dead(dfa2, dfa2.start)
    /\ Len(Head(all_matching_strings(dfa))) = 1
    /\ ~matches(dfa2, Head(all_matching_strings(dfa)))
    /\ returned = << FALSE >>

\* Core extraction got past both scans: it ended at one of the assertions of
\* lines 183-224 or completed.
ScansCompleted ==
    core.fault \in {"AssertPrefix", "AssertSuffix", "AssertSplit",
                    "AssertCoreOrder", "none"}

\* C12 as stated: for every ordered pair of differing buffers u, v with v not
\* an extension of u, the prefix, suffix and cores that the two scans give
\* satisfy u = prefix + u_core + suffix and v = prefix + v_core + suffix, so
\* the assertions of lines 197-198 hold, overlapping prefix and suffix included.
C12_CoresSplitBothBuffers ==
    (ScansCompleted /\ ~StartsWith(LargerBuffer, SmallerBuffer)) =>
        /\ SmallerBuffer = core.prefix \o core.u_core \o core.suffix
        /\ LargerBuffer = core.prefix \o core.v_core \o core.suffix
        /\ core.fault # "AssertSplit"

\* C12 witness: u = 0x000100 and v = 0x00010100, whose common prefix 0x0001
\* and common suffix 0x0100 overlap inside u; line 197 fails.
C12_Witness ==
    /\ SmallerBuffer = << 0, 1, 0 >>
    /\ LargerBuffer = << 0, 1, 1, 0 >>
    /\ core.prefix = << 0, 1 >>
    /\ core.suffix = << 1, 0 >>
    /\ core.fault = "AssertSplit"

\* C19 as stated: for every ordered pair of differing buffers u, v with v not
\* an extension of u, neither scan reads an index outside a buffer, so core
\* extraction raises nothing but its assertions.
C19_ScansStayInRange ==
    (core # NotExtracted /\ ~StartsWith(LargerBuffer, SmallerBuffer)) =>
        core.fault # "IndexError"

\* C19 witness: u = 0x00 is a proper suffix of v = 0x0100; the prefix scan
\* stops at index 0 and the suffix scan reads u[-2].
C19_Witness ==
    /\ SmallerBuffer = << 0 >>
    /\ LargerBuffer = << 1, 0 >>
    /\ core.prefix = << >>
    /\ core.fault = "IndexError"

\* C20: when core extraction gets as far as line 224, the cores are in strict
\* shortlex order (u_core shorter than v_core, or of the same length and
\* smaller bytewise), so the assertion of line 224 never fails and the cores
\* differ.
C20_CoresKeepStrictOrder ==
    /\ core.fault # "AssertCoreOrder"
    /\ core.fault = "none" =>
           /\ \/ Len(core.u_core) < Len(core.v_core)
              \/ /\ Len(core.u_core) = Len(core.v_core)
                 /\ LexLess(core.u_core, core.v_core)
           /\ core.u_core # core.v_core

\* C20 witness: buffers of the same length that came in descending order,
\* with a common prefix and a common suffix around cores of two bytes.
C20_Witness ==
    /\ core.fault = "none"
    /\ buffers[1] = LargerBuffer
    /\ Len(SmallerBuffer) = Len(LargerBuffer)
    /\ Len(core.prefix) = 1
    /\ Len(core.suffix) = 1
    /\ Len(core.u_core) = 2

\* A step that registers an automaton (line 259).
Registers == SHRINKING_DFAS' # SHRINKING_DFAS

\* C11 as stated: the step that registers a learned automaton for a
\* divergence on the target origin records a result of the engine for that
\* origin and goes back to seeking, so the next engine call is a fresh attempt.
C11_SeeksAfterLearning ==
    [][Registers =>
          /\ seen'[target] \in Results
          /\ pc' = "seeking"]_vars

\* C11 as amended: the step that registers a learned automaton for a
\* divergence on the target origin records the engine's latest interesting
\* example for that origin and stays in the inner loop: the origin and the
\* attempt are the same, and the next engine call is another shrink of that
\* attempt; a fresh attempt is made only after a first record or a match.
C11_ShrinksAgainAfterLearning ==
    /\ [][Registers =>
            /\ pc = "shrinking" /\ pc' = "shrinking"
            /\ target' = target
            /\ seen'[target] \in Results
            /\ consecutive_successes' = 0]_vars
    /\ [][pc = "shrinking" =>
            /\ target' = target
            /\ failures_to_find_interesting' = failures_to_find_interesting]_vars
    /\ [][(pc = "shrinking" /\ pc' = "seeking") =>
            \/ target \notin DOMAIN seen
            \/ shrunk'.buffer = seen[target].buffer]_vars

\* C11 witness: an automaton has just been learned and registered, and the
\* session is about to shrink again.
C11_Witness ==
    /\ pc = "shrinking"
    /\ dfas_added = 1
    /\ consecutive_successes = 0
    /\ valid_cores = << TRUE, TRUE >>
    /\ NameOf(new_dfa) \in DOMAIN SHRINKING_DFAS \ DOMAIN learned_dfa_file
    /\ shrunk.buffer # seen[target].buffer

\* C13: recording the first minimal result of an origin stores the shrunk
\* result under that origin and goes back to seeking; the success counter,
\* dfas_added, the registry, the store and the learner's results are left as
\* they were, and nothing is raised.
C13_FirstRecordIsNeutral ==
    [][(pc = "shrinking" /\ target \notin DOMAIN seen) =>
          /\ seen' = Put(seen, target, shrunk')
          /\ pc' = "seeking"
          /\ UNCHANGED << consecutive_successes, dfas_added, SHRINKING_DFAS,
                          store, valid_cores, new_dfa, error >>]_vars

\* C13 witness: the second origin has just been recorded, after a match on
\* the first one, and the counter still stands at one.
C13_Witness ==
    /\ pc = "seeking"
    /\ DOMAIN seen = Origins
    /\ shrunk = seen[target]
    /\ consecutive_successes = 1
    /\ dfas_added = 0

\* The step is a divergence that gets as far as learning (line 166).
StartsLearning ==
    /\ Compares
    /\ DivergenceError = "none"
    /\ shrunk'.buffer # seen[target].buffer

\* C14: a divergence in which v is an extension of u fails at the assertion
\* of line 168, and one in which is_valid_core returns False for u_core or for
\* v_core fails at the assertions of lines 226-227; in both cases the registry,
\* the recorded results and the store are left as they were, and an automaton
\* is registered only after both cores were found valid and v did not extend u.
C14_InvalidDivergenceStopsBeforeLearning ==
    /\ [][(StartsLearning /\ StartsWith(Larger(shrunk'), Smaller(shrunk'))) =>
            /\ pc' = "failed"
            /\ error' = "AssertNotExtension"
            /\ UNCHANGED << SHRINKING_DFAS, seen, store, valid_cores, new_dfa >>]_vars
    /\ [][(StartsLearning /\ valid_cores' \in {<< FALSE >>, << TRUE, FALSE >>}
               /\ ExtractCore(Smaller(shrunk'), Larger(shrunk')).fault = "none") =>
            /\ pc' = "failed"
            /\ error' = "AssertValidCore"
            /\ UNCHANGED << SHRINKING_DFAS, seen, store, new_dfa >>]_vars
    /\ [][Registers =>
            /\ valid_cores' = << TRUE, TRUE >>
            /\ ~StartsWith(Larger(shrunk'), Smaller(shrunk'))]_vars
    /\ [](error \in {"AssertNotExtension", "AssertValidCore"} =>
            pc = "failed" /\ update_calls = 0)

\* C14 witness: u_core passed the oracle, v_core did not, and the session
\* failed with nothing registered.
C14_Witness ==
    /\ pc = "failed"
    /\ error = "AssertValidCore"
    /\ valid_cores = << TRUE, FALSE >>
    /\ SHRINKING_DFAS = learned_dfa_file
    /\ dfas_added = 1

\* C16: no step removes a name from the registry or binds it to another
\* automaton, a step adds at most the one name derived from the automaton just
\* learned, and when that name is in the registry already the session fails
\* at the assertion of line 258 with the registry as it was.
C16_RegistryAppendOnly ==
    /\ [][\A name \in DOMAIN SHRINKING_DFAS :
              /\ name \in DOMAIN SHRINKING_DFAS'
              /\ SHRINKING_DFAS'[name] = SHRINKING_DFAS[name]]_vars
    /\ [][Registers =>
            /\ NameOf(new_dfa') \notin DOMAIN SHRINKING_DFAS
            /\ SHRINKING_DFAS' = Put(SHRINKING_DFAS, NameOf(new_dfa'), new_dfa')]_vars
    /\ [][(StartsLearning /\ valid_cores' = << TRUE, TRUE >>
               /\ ExtractCore(Smaller(shrunk'), Larger(shrunk')).fault = "none"
               /\ NameOf(new_dfa') \in DOMAIN SHRINKING_DFAS) =>
            /\ pc' = "failed"
            /\ error' = "AssertNameNotInRegistry"
            /\ UNCHANGED SHRINKING_DFAS]_vars
    /\ [](error = "AssertNameNotInRegistry" =>
            pc = "failed" /\ NameOf(new_dfa) \in DOMAIN SHRINKING_DFAS)

\* C16 witness: a registry loaded with one entry, to which the session added
\* a second and kept the first.
C16_Witness ==
    /\ DOMAIN learned_dfa_file = {NameOf(1)}
    /\ DOMAIN SHRINKING_DFAS = {NameOf(1), NameOf(2)}
    /\ SHRINKING_DFAS[NameOf(1)] = 1
    /\ new_dfa = 2
    /\ pc = "shrinking"

\* C18: no step changes the result recorded for an origin other than the
\* target of the attempt in hand, or records or forgets one; and the outcome
\* of a comparison is a match exactly when the shrunk buffer is the one
\* recorded for the target, whatever is recorded for the other origins.
C18_OriginsAreIndependent ==
    /\ [][\A origin \in Origins \ {target'} :
              /\ origin \in DOMAIN seen' <=> origin \in DOMAIN seen
              /\ origin \in DOMAIN seen => seen'[origin] = seen[origin]]_vars
    /\ [][Compares =>
            /\ shrunk'.buffer = seen[target].buffer
                   <=> consecutive_successes' = consecutive_successes + 1
            /\ shrunk'.buffer # seen[target].buffer
                   <=> (consecutive_successes' = 0 /\ pc' # "seeking" /\ pc' # "done")]_vars

\* C18 witness: the shrunk buffer of origin X matched the record of X and
\* counted as a success while the record of origin Y holds another buffer.
C18_Witness ==
    /\ DOMAIN seen = Origins
    /\ target = "X"
    /\ shrunk.buffer = seen["X"].buffer
    /\ shrunk.buffer # seen["Y"].buffer
    /\ consecutive_successes = 1
    /\ pc = "seeking"

\* A step that is a call of update_learned_dfas.
Updates == update_calls' = update_calls + 1

\* The lines of a text up to and including the first marker line.
KeptLines(text) ==
    SubSeq(splitlines(text), 1, index(splitlines(text), << Marker >>))

\* The lines of a text after the first marker line.
LinesAfterMarker(text) ==
    SubSeq(splitlines(text), index(splitlines(text), << Marker >>) + 1,
           Len(splitlines(text)))

\* The lines are: an empty line, "# fmt: off", an empty line, one entry line
\* for each item of the registry in ascending order of name, an empty line,
\* "# fmt: on".
IsRegenerated(lines, registry) ==
    LET count == Cardinality(DOMAIN registry)
    IN /\ Len(lines) = count + 5
       /\ lines[1] = << >>
       /\ lines[2] = << "# fmt: off" >>
       /\ lines[3] = << >>
       /\ \A name \in DOMAIN registry :
              \E n \in 1..count : lines[3 + n] = EntryLine(name, registry[name])
       /\ \A n \in 1..(count - 1) :
              \E a, b \in DOMAIN registry :
                  /\ a[2] < b[2]
                  /\ lines[3 + n] = EntryLine(a, registry[a])
                  /\ lines[4 + n] = EntryLine(b, registry[b])
       /\ lines[count + 4] = << >>
       /\ lines[count + 5] = << "# fmt: on" >>

\* C17: a call of update_learned_dfas leaves the lines up to and including
\* the marker line as they were; after it the lines that follow the marker are
\* the regenerated block, one entry per item of the registry in ascending
\* order of name; the file is written exactly when the regenerated text
\* differs from the text read, and then with that text; and a call that
\* follows a call with the registry unchanged in between writes nothing.
C17_RegeneratesAfterMarkerAndSkipsEqualWrite ==
    /\ [][Updates =>
            /\ KeptLines(source') = KeptLines(source)
            /\ IsRegenerated(LinesAfterMarker(source'), SHRINKING_DFAS)
            /\ source' = new_source(source, SHRINKING_DFAS)
            /\ IF source' # source THEN writes' = writes + 1
               ELSE writes' = writes]_vars
    /\ [][(Updates /\ update_calls >= 1 /\ learned_dfa_file = SHRINKING_DFAS) =>
            UNCHANGED << source, writes >>]_vars
    /\ [][~Updates => UNCHANGED << source, writes >>]_vars

\* C17 witness: two entries were registered, the first call wrote the file,
\* the second call came with the registry unchanged and wrote nothing.
C17_Witness ==
    /\ update_calls = 2
    /\ writes = 1
    /\ Cardinality(DOMAIN SHRINKING_DFAS) = 2
    /\ learned_dfa_file = SHRINKING_DFAS
    /\ IsRegenerated(LinesAfterMarker(source), SHRINKING_DFAS)

\* C15: the loop is left only at its test, with the generation equal to the
\* one the pass just made started from, after at least one pass; the test
\* starts another pass exactly when the generation differs from the one the
\* last pass started from; a pass is learn(u_core), learn(v_core) and then
\* learn of the strings of the enumeration, Min(available, 10) of them; and
\* the automaton that is canonicalised is the hypothesis of the generation
\* that the last pass left unchanged.
C15_LearnsUntilAPassChangesNothing ==
    /\ [](learner_pc = "done" =>
            /\ generation = prev
            /\ prev # NoGeneration
            /\ new_dfa = HypothesisAt(prev))
    /\ [][learner_pc = "while" =>
            IF generation = prev
            THEN learner_pc' = "done"
            ELSE learner_pc' = "learn_u_core" /\ prev' = generation]_vars
    /\ [][learner_pc = "learn_u_core" => learner_pc' = "learn_v_core"]_vars
    /\ [][learner_pc = "learn_v_core" => learner_pc' = "for" /\ sampled' = 0]_vars
    /\ [][learner_pc = "for" =>
            /\ sampled' = sampled + 1
            /\ learner_pc' = "while" <=> sampled' = Min(available, 10)
            /\ learner_pc' \in {"while", "for"}]_vars
    /\ [](sampled <= 10 /\ sampled <= available)
    /\ [][learner_pc # "while" => prev' = prev]_vars
    /\ [][generation' >= generation]_vars

\* C15 witness: the loop was left after a pass that cut an enumeration of
\* eleven strings at ten and changed nothing, the generation having gone up
\* to two in the passes before.
C15_Witness ==
    /\ learner_pc = "done"
    /\ generation = 2
    /\ prev = 2
    /\ available = 11
    /\ sampled = 10

====
